---- MODULE Spec2Model ----
(***************************************************************************)
(* Fixed-window rate limiter (wulawulu/ratelimiter).                       *)
(*                                                                         *)
(*   src/src/nanos.rs  Nanos: a u64 nanosecond duration / simulated instant *)
(*   src/src/clock.rs  Clock, MonotonicClock, FakeRelativeClock            *)
(*   src/src/main.rs   State (window counter), RateLimiter (keyed registry)*)
(*                                                                         *)
(* u64 values are modelled in 0..U64Max with U64Max scaled down; every     *)
(* addition of the source is taken modulo U64Max + 1 where the build wraps *)
(* and is a panic where the build checks overflow.                         *)
(***************************************************************************)
EXTENDS Integers, Sequences, FiniteSets, TLC

\* ----- bounds ------------------------------------------------------------
\* u64::MAX, scaled down
U64Max == 7
\* largest window length (duration_nano) given to State::new
MaxWindow == 3
\* largest capacity (allowed) given to State::new
MaxCap == 2
\* simulated time up to which the registry is exercised
Horizon == 3
\* threads sharing one FakeRelativeClock
NumThreads == 2
\* iterations of each thread's loop
Rounds == 2
\* spurious failures compare_exchange_weak may show in one run
MaxSpurious == 1

U64 == 0 .. U64Max
\* std::time::Duration holds more nanoseconds than a u64: one value beyond u64
Durations == 0 .. (U64Max + 1)
Windows == 0 .. MaxWindow
Caps == 0 .. MaxCap
\* the Arc<AtomicU64> cells behind FakeRelativeClock handles: each
\* FakeRelativeClock::default() allocates one
Arcs == {"a", "b"}
Threads == 1 .. NumThreads

VARIABLES
    overflow_checks, \* the build profile: TRUE = debug (overflow panics), FALSE = release (wraps)
    now,             \* [Arcs -> U64]: the AtomicU64 behind each FakeRelativeClock
    state,           \* the State<FakeRelativeClock> under test
    op,              \* the last call made
    ret,             \* the bool returned by the last acquire
    panicked,        \* the last call panicked
    calls,           \* history: acquires made back to back since the run began, -1 = no run
    fresh,           \* history: the run began at State::new (else at a window reset)
    admits,          \* history: a span of clock values (its first value) and the number of
                     \* acquires that returned true at a clock value inside it
    base_state,      \* RateLimiter.base_state
    inner_state,     \* RateLimiter.inner_state: HashMap<String, State>, a function on its keys
    inserted,        \* history: the keys insert_key was ever called with
    replaced,        \* what HashMap::insert returned to the last call: the entry it dropped, if any
    amount,          \* the Duration every thread passes to advance, in nanoseconds
    pc,              \* each thread's position in its loop
    round,           \* each thread's loop counter
    before,          \* each thread's `now` read before advance (0 outside an iteration)
    after,           \* each thread's now() read after advance, kept when the assertion fails
    prev,            \* advance's local `prev`, per thread
    next,            \* advance's local `next`, per thread
    spurious,        \* history: spurious compare_exchange_weak failures so far
    completed,       \* history: the number of advance calls that returned
    race,            \* history, per thread in advance: "overtaken" = another thread's advance
                     \* succeeded since prev was loaded, "retried" = the call went round
                     \* the loop on a real mismatch, else "none"
    calc             \* a call of a pure function: its name, arguments and outcome

vars == <<overflow_checks, now, state, op, ret, panicked, calls, fresh, admits,
          base_state, inner_state, inserted, replaced,
          amount, pc, round, before, after, prev, next, spurious, completed, race, calc>>

threadVars == <<amount, pc, round, before, after, prev, next, spurious, completed, race>>

\* no pure function was called
NoCalc == [fn |-> "none", a |-> 0, b |-> 0, out |-> 0, panic |-> FALSE]

\* Option::None of HashMap::insert
NoEntry == [some |-> FALSE]

\* no acquire was recorded
NoAdmits == [from |-> 0, count |-> 0]

windowVars == <<state, calls, fresh, admits>>
registryVars == <<base_state, inner_state, inserted, replaced>>
limiterVars == <<state, calls, fresh, admits, base_state, inner_state, inserted, replaced>>

\* ----- nanos.rs ----------------------------------------------------------
\* Nanos::saturating_sub (u64::saturating_sub)
NanosSaturatingSub(self, rhs) == IF self >= rhs THEN self - rhs ELSE 0

\* <Nanos as Reference>::duration_since
NanosDurationSince(self, earlier) == NanosSaturatingSub(self, earlier)

\* ----- clock.rs ----------------------------------------------------------
\* `prev + by` on u64 overflows
AddOverflows(a, b) == a + b > U64Max

\* `prev + by` on u64 in a build that does not check overflow
WrappingAdd(a, b) == (a + b) % (U64Max + 1)

\* mutant: a duration too long for u64 is clamped to u64::MAX
DurationToU64_Clamped(by) ==
    [ok |-> TRUE, value |-> IF by <= U64Max THEN by ELSE U64Max]

\* by.as_nanos().try_into(): Ok(nanoseconds) when they fit u64, else Err
\* (on which .expect(..) panics)
DurationToU64(by) ==
    IF by <= U64Max THEN [ok |-> TRUE, value |-> by] ELSE [ok |-> FALSE, value |-> 0]

\* <FakeRelativeClock as Clock>::now
ClockNow(clock) == now[clock]

\* mutant: clone makes an independent copy of the counter
ClockClone_Copy(clock) == CHOOSE c \in Arcs : c # clock

\* FakeRelativeClock::clone (derive(Clone) on an Arc field: the same cell)
ClockClone(clock) == clock

\* ----- main.rs: State ----------------------------------------------------
\* State::new
StateNew(duration, allowed, clock) ==
    [ last_update   |-> ClockNow(clock),
      acquired      |-> 0,
      duration_nano |-> duration,
      allowed       |-> allowed,
      clock         |-> clock ]

\* the elapsed time State::acquire computes
Elapsed(s) == NanosDurationSince(ClockNow(s.clock), s.last_update)

\* mutant: the boundary instant does not reset (`>` for `>=`)
WindowExpired_Strict(s) == Elapsed(s) > s.duration_nano

\* mutant: the window resets one nanosecond early
WindowExpired_Early(s) == Elapsed(s) + 1 >= s.duration_nano

\* the reset condition of State::acquire
WindowExpired(s) == Elapsed(s) >= s.duration_nano

\* mutant: the reset moves window_start but keeps the consumed count
AfterReset_KeepsCount(s) ==
    IF WindowExpired(s)
    THEN [s EXCEPT !.last_update = ClockNow(s.clock)]
    ELSE s

\* the reset branch of State::acquire
AfterReset(s) ==
    IF WindowExpired(s)
    THEN [s EXCEPT !.last_update = ClockNow(s.clock), !.acquired = 0]
    ELSE s

\* mutant: the quota test is dropped, every acquire admits
StateAcquire_NoLimit(s) ==
    LET s1 == AfterReset(s) IN
    [state |-> [s1 EXCEPT !.acquired = s1.acquired + 1], ret |-> TRUE]

\* mutant: the quota test is off by one (`<=` for `<`)
StateAcquire_OffByOne(s) ==
    LET s1 == AfterReset(s) IN
    IF s1.acquired <= s1.allowed
    THEN [state |-> [s1 EXCEPT !.acquired = s1.acquired + 1], ret |-> TRUE]
    ELSE [state |-> s1, ret |-> FALSE]

\* mutant: the quota is tested before the window is reset
StateAcquire_RejectFirst(s) ==
    IF s.acquired >= s.allowed
    THEN [state |-> s, ret |-> FALSE]
    ELSE LET s1 == AfterReset(s) IN
         [state |-> [s1 EXCEPT !.acquired = s1.acquired + 1], ret |-> TRUE]

\* mutant: a rejected acquire is counted too
StateAcquire_CountsRejected(s) ==
    LET s1 == AfterReset(s) IN
    [ state |-> [s1 EXCEPT !.acquired = s1.acquired + 1],
      ret   |-> s1.acquired < s1.allowed ]

\* State::acquire: the new state and the returned bool
StateAcquire(s) ==
    LET s1 == AfterReset(s) IN
    IF s1.acquired < s1.allowed
    THEN [state |-> [s1 EXCEPT !.acquired = s1.acquired + 1], ret |-> TRUE]
    ELSE [state |-> s1, ret |-> FALSE]

\* ----- the window counter on the simulated clock ---------------------------
Min(a, b) == IF a <= b THEN a ELSE b

\* simulated time elapsed since window_start, clamped at zero (spec 4.2)
TimeSince(s) ==
    IF now[s.clock] >= s.last_update THEN now[s.clock] - s.last_update ELSE 0

\* simulated time is at least the window length past window_start
TimePast(s) == TimeSince(s) >= s.duration_nano

Init ==
    /\ overflow_checks \in BOOLEAN
    /\ now = [c \in Arcs |-> 0]
    /\ \E w \in Windows, c \in Caps : state = StateNew(w, c, "a")
    /\ op = "new"
    /\ ret = FALSE
    /\ panicked = FALSE
    /\ calls = 0
    /\ fresh = TRUE
    /\ base_state = StateNew(0, 0, "a")
    /\ inner_state = << >>
    /\ inserted = {}
    /\ replaced = NoEntry
    /\ admits = NoAdmits
    /\ amount = 0
    /\ pc = [t \in Threads |-> "done"]
    /\ round = [t \in Threads |-> 0]
    /\ before = [t \in Threads |-> 0]
    /\ after = [t \in Threads |-> 0]
    /\ prev = [t \in Threads |-> 0]
    /\ next = [t \in Threads |-> 0]
    /\ spurious = 0
    /\ completed = 0
    /\ race = [t \in Threads |-> "none"]
    /\ calc = NoCalc

\* State::new(duration, allowed, clock.clone()) replacing the counter under test
NewState(w, c) ==
    /\ op' = "new"
    /\ state' = StateNew(w, c, ClockClone(state.clock))
    /\ ret' = FALSE
    /\ panicked' = FALSE
    /\ calls' = 0
    /\ fresh' = TRUE
    /\ UNCHANGED <<overflow_checks, now, admits, registryVars, threadVars, calc>>

\* state.acquire()
Acquire ==
    /\ op' = "acquire"
    /\ state' = StateAcquire(state).state
    /\ ret' = StateAcquire(state).ret
    /\ panicked' = FALSE
    /\ calls' = IF calls >= 0 THEN Min(calls + 1, MaxCap + 2)
                ELSE IF TimePast(state) THEN 1 ELSE -1
    /\ UNCHANGED <<overflow_checks, now, fresh, admits, registryVars, threadVars, calc>>

\* clock.advance(by) called by one thread with no other thread on the cell:
\* the load, the addition and the compare-exchange loop end with now + by stored
Advance(clock, by) ==
    /\ op' = "advance"
    /\ ret' = FALSE
    /\ IF \/ ~DurationToU64(by).ok
          \/ (AddOverflows(ClockNow(clock), DurationToU64(by).value) /\ overflow_checks)
       THEN /\ panicked' = TRUE
            /\ now' = now
       ELSE /\ panicked' = FALSE
            /\ now' = [now EXCEPT ![clock] =
                          WrappingAdd(ClockNow(clock), DurationToU64(by).value)]
    /\ calls' = IF now'[state.clock] # now[state.clock] THEN -1 ELSE calls
    /\ fresh' = IF now'[state.clock] # now[state.clock] THEN FALSE ELSE fresh
    /\ UNCHANGED <<overflow_checks, state, admits, registryVars, threadVars, calc>>

Next ==
    \/ \E w \in Windows, c \in Caps : NewState(w, c)
    \/ Acquire
    \/ \E by \in Durations : Advance(state.clock, by)

Spec == Init /\ [][Next]_vars

\* ----- the window counter with a record of its admissions ------------------
\* the span of clock values that starts at `from` and is shorter than the
\* window of s: the values from .. from + W - 1
InSpan(s, from, v) == from <= v /\ v <= from + s.duration_nano - 1

\* a window counter of a window length above zero, made on a simulated clock
\* that stands at any value; the admissions inside any one span are recorded
InitBurst ==
    /\ overflow_checks \in BOOLEAN
    /\ \E t0 \in U64 : now = [c \in Arcs |-> IF c = "a" THEN t0 ELSE 0]
    /\ \E w \in Windows \ {0}, c \in Caps : state = StateNew(w, c, "a")
    /\ op = "new"
    /\ ret = FALSE
    /\ panicked = FALSE
    /\ calls = -1
    /\ fresh = FALSE
    /\ \E v \in U64 : admits = [from |-> v, count |-> 0]
    /\ base_state = StateNew(0, 0, "a")
    /\ inner_state = << >>
    /\ inserted = {}
    /\ replaced = NoEntry
    /\ amount = 0
    /\ pc = [t \in Threads |-> "done"]
    /\ round = [t \in Threads |-> 0]
    /\ before = [t \in Threads |-> 0]
    /\ after = [t \in Threads |-> 0]
    /\ prev = [t \in Threads |-> 0]
    /\ next = [t \in Threads |-> 0]
    /\ spurious = 0
    /\ completed = 0
    /\ race = [t \in Threads |-> "none"]
    /\ calc = NoCalc

\* state.acquire(), an admission at a clock value inside the span recorded
\* (the record stops counting above twice the largest capacity)
BurstAcquire ==
    /\ op' = "acquire"
    /\ state' = StateAcquire(state).state
    /\ ret' = StateAcquire(state).ret
    /\ panicked' = FALSE
    /\ admits' = IF /\ StateAcquire(state).ret
                    /\ InSpan(state, admits.from, ClockNow(state.clock))
                 THEN [admits EXCEPT !.count = Min(@ + 1, 2 * MaxCap + 1)]
                 ELSE admits
    /\ UNCHANGED <<overflow_checks, now, calls, fresh, registryVars, threadVars, calc>>

\* clock.advance(by)
BurstAdvance(by) == Advance(state.clock, by)

NextBurst ==
    \/ BurstAcquire
    \/ \E by \in Durations : BurstAdvance(by)

SpecBurst == InitBurst /\ [][NextBurst]_vars

\* ----- clones of the simulated clock ----------------------------------------
\* let clock = FakeRelativeClock::default();
CallerClock == "a"
\* a second, unrelated FakeRelativeClock::default()
OtherClock == "b"

\* State::new(w, c, clock.clone()) as in the tests: the counter holds a clone
InitClone ==
    /\ overflow_checks \in BOOLEAN
    /\ now = [c \in Arcs |-> 0]
    /\ \E w \in Windows, c \in Caps : state = StateNew(w, c, ClockClone(CallerClock))
    /\ op = "new"
    /\ ret = FALSE
    /\ panicked = FALSE
    /\ calls = 0
    /\ fresh = TRUE
    /\ base_state = StateNew(0, 0, "a")
    /\ inner_state = << >>
    /\ inserted = {}
    /\ replaced = NoEntry
    /\ admits = NoAdmits
    /\ amount = 0
    /\ pc = [t \in Threads |-> "done"]
    /\ round = [t \in Threads |-> 0]
    /\ before = [t \in Threads |-> 0]
    /\ after = [t \in Threads |-> 0]
    /\ prev = [t \in Threads |-> 0]
    /\ next = [t \in Threads |-> 0]
    /\ spurious = 0
    /\ completed = 0
    /\ race = [t \in Threads |-> "none"]
    /\ calc = NoCalc

\* clock.advance(by) on the caller's handle
AdvanceCaller(by) == Advance(CallerClock, by)

\* clock.clone().advance(by) on another clone of the caller's handle
AdvanceClone(by) == Advance(ClockClone(CallerClock), by)

\* advance(by) on the unrelated clock
AdvanceOther(by) == Advance(OtherClock, by)

NextClone ==
    \/ Acquire
    \/ \E by \in Durations : AdvanceCaller(by)
    \/ \E by \in Durations : AdvanceClone(by)
    \/ \E by \in Durations : AdvanceOther(by)

SpecClone == InitClone /\ [][NextClone]_vars

\* ----- main.rs: RateLimiter ----------------------------------------------
\* the keys the callers use; "unknown_user" is never given to insert_key
Keys == {"user1", "user2", "unknown_user"}
InsertKeys == {"user1", "user2"}
\* the window lengths and capacities of the counters given to the registry
\* (one window length for all, as with State::per_second; it expires within
\* the horizon)
RegWindows == {Horizon - 1}
RegCaps == {1, MaxCap}

\* mutant: an existing entry is kept (entry().or_insert semantics)
MapInsert_KeepsFirst(map, key, value) ==
    [k \in (DOMAIN map) \cup {key} |->
        IF k \in DOMAIN map THEN map[k] ELSE value]

\* HashMap::insert returns the value it replaced, or None
MapInsertReturn(map, key) ==
    IF key \in DOMAIN map
    THEN [some |-> TRUE, key |-> key, value |-> map[key]]
    ELSE NoEntry

\* HashMap::insert: the entry is added, or replaces the one of the same key
MapInsert(map, key, value) ==
    [k \in (DOMAIN map) \cup {key} |-> IF k = key THEN value ELSE map[k]]

\* mutant: a keyed call also charges the base counter
LimiterAcquireByKey_ChargesBase(base, inner, key) ==
    IF key \in DOMAIN inner
    THEN [ base  |-> StateAcquire(base).state,
           inner |-> [inner EXCEPT ![key] = StateAcquire(inner[key]).state],
           ret   |-> StateAcquire(inner[key]).ret ]
    ELSE [base |-> base, inner |-> inner, ret |-> FALSE]

\* mutant: an unknown key falls back to the base counter
LimiterAcquireByKey_FallsBack(base, inner, key) ==
    IF key \in DOMAIN inner
    THEN [ base  |-> base,
           inner |-> [inner EXCEPT ![key] = StateAcquire(inner[key]).state],
           ret   |-> StateAcquire(inner[key]).ret ]
    ELSE [ base  |-> StateAcquire(base).state,
           inner |-> inner,
           ret   |-> StateAcquire(base).ret ]

\* RateLimiter::acquire_by_key: get_mut(key).map_or(false, |state| state.acquire())
LimiterAcquireByKey(base, inner, key) ==
    IF key \in DOMAIN inner
    THEN [ base  |-> base,
           inner |-> [inner EXCEPT ![key] = StateAcquire(inner[key]).state],
           ret   |-> StateAcquire(inner[key]).ret ]
    ELSE [base |-> base, inner |-> inner, ret |-> FALSE]

\* RateLimiter::acquire: base_state.acquire()
LimiterAcquire(base, inner) ==
    [ base  |-> StateAcquire(base).state,
      inner |-> inner,
      ret   |-> StateAcquire(base).ret ]

\* RateLimiter::new(State::new(w, 1, clock)) on a fresh simulated clock
\* (the tests build the base counter with capacity 1)
InitRegistry ==
    /\ overflow_checks \in BOOLEAN
    /\ now = [c \in Arcs |-> 0]
    /\ \E w \in RegWindows : base_state = StateNew(w, 1, "a")
    /\ inner_state = << >>
    /\ inserted = {}
    /\ replaced = NoEntry
    /\ admits = NoAdmits
    /\ op = "new"
    /\ ret = FALSE
    /\ panicked = FALSE
    /\ state = StateNew(0, 0, "a")
    /\ calls = -1
    /\ fresh = FALSE
    /\ amount = 0
    /\ pc = [t \in Threads |-> "done"]
    /\ round = [t \in Threads |-> 0]
    /\ before = [t \in Threads |-> 0]
    /\ after = [t \in Threads |-> 0]
    /\ prev = [t \in Threads |-> 0]
    /\ next = [t \in Threads |-> 0]
    /\ spurious = 0
    /\ completed = 0
    /\ race = [t \in Threads |-> "none"]
    /\ calc = NoCalc

\* limiter.insert_key(key, State::new(w, c, clock.clone()))
InsertKey(key, w, c) ==
    /\ op' = "insert_key"
    /\ inner_state' = MapInsert(inner_state, key, StateNew(w, c, ClockClone(base_state.clock)))
    /\ inserted' = inserted \cup {key}
    /\ replaced' = MapInsertReturn(inner_state, key)
    /\ ret' = FALSE
    /\ panicked' = FALSE
    /\ UNCHANGED <<overflow_checks, now, base_state, windowVars, threadVars, calc>>

\* limiter.acquire()
RegistryAcquire ==
    /\ op' = "acquire"
    /\ base_state' = LimiterAcquire(base_state, inner_state).base
    /\ inner_state' = LimiterAcquire(base_state, inner_state).inner
    /\ ret' = LimiterAcquire(base_state, inner_state).ret
    /\ panicked' = FALSE
    /\ replaced' = NoEntry
    /\ UNCHANGED <<overflow_checks, now, inserted, windowVars, threadVars, calc>>

\* limiter.acquire_by_key(key)
RegistryAcquireByKey(key) ==
    /\ op' = "acquire_by_key"
    /\ base_state' = LimiterAcquireByKey(base_state, inner_state, key).base
    /\ inner_state' = LimiterAcquireByKey(base_state, inner_state, key).inner
    /\ ret' = LimiterAcquireByKey(base_state, inner_state, key).ret
    /\ panicked' = FALSE
    /\ replaced' = NoEntry
    /\ UNCHANGED <<overflow_checks, now, inserted, windowVars, threadVars, calc>>

\* clock.advance(by) while the registry is in use, up to the time horizon
RegistryAdvance(by) ==
    /\ ClockNow(base_state.clock) + by <= Horizon
    /\ Advance(base_state.clock, by)

NextRegistry ==
    \/ \E key \in InsertKeys, w \in RegWindows, c \in RegCaps : InsertKey(key, w, c)
    \/ RegistryAcquire
    \/ \E key \in Keys : RegistryAcquireByKey(key)
    \/ \E by \in 1 .. Horizon : RegistryAdvance(by)

SpecRegistry == InitRegistry /\ [][NextRegistry]_vars

\* ----- clock.rs: threads sharing one FakeRelativeClock ---------------------
\* Each thread runs the loop of tests::test_fake_relative_clock:
\*     let now = clock.now(); clock.advance(amount); assert!(clock.now() > now);
\* Every atomic access (load, compare_exchange_weak) is one step.
InitClock ==
    /\ overflow_checks \in BOOLEAN
    /\ now = [c \in Arcs |-> 0]
    /\ amount \in Durations
    /\ pc = [t \in Threads |-> "now"]
    /\ round = [t \in Threads |-> 0]
    /\ before = [t \in Threads |-> 0]
    /\ after = [t \in Threads |-> 0]
    /\ prev = [t \in Threads |-> 0]
    /\ next = [t \in Threads |-> 0]
    /\ spurious = 0
    /\ completed = 0
    /\ race = [t \in Threads |-> "none"]
    /\ calc = NoCalc
    /\ op = "new"
    /\ ret = FALSE
    /\ panicked = FALSE
    /\ state = StateNew(0, 0, "a")
    /\ calls = -1
    /\ fresh = FALSE
    /\ base_state = StateNew(0, 0, "a")
    /\ inner_state = << >>
    /\ inserted = {}
    /\ replaced = NoEntry
    /\ admits = NoAdmits

\* the position after `next = prev + by` was computed from the value p:
\* a panic where the build checks overflow, else the compare-exchange
AfterAdd(p) == IF AddOverflows(p, amount) /\ overflow_checks THEN "panicked" ELSE "cas"

\* let now = clock.now();
ReadBefore(t) ==
    /\ pc[t] = "now"
    /\ before' = [before EXCEPT ![t] = ClockNow("a")]
    /\ pc' = [pc EXCEPT ![t] = "advance"]
    /\ UNCHANGED <<overflow_checks, now, op, ret, panicked, limiterVars, calc,
                   amount, round, after, prev, next, spurious, completed, race>>

\* advance: by.as_nanos().try_into().expect(..); prev = now.load(Acquire);
\* next = prev + by
AdvanceLoad(t) ==
    /\ pc[t] = "advance"
    /\ IF ~DurationToU64(amount).ok
       THEN /\ pc' = [pc EXCEPT ![t] = "panicked"]
            /\ UNCHANGED <<prev, next>>
       ELSE /\ prev' = [prev EXCEPT ![t] = ClockNow("a")]
            /\ next' = [next EXCEPT ![t] = WrappingAdd(ClockNow("a"), amount)]
            /\ pc' = [pc EXCEPT ![t] = AfterAdd(ClockNow("a"))]
    /\ race' = [race EXCEPT ![t] = "none"]
    /\ UNCHANGED <<overflow_checks, now, op, ret, panicked, limiterVars, calc,
                   amount, round, before, after, spurious, completed>>

\* compare_exchange_weak(prev, next, ..) finds prev and stores next: the loop
\* ends and advance returns
CasSuccess(t) ==
    /\ pc[t] = "cas"
    /\ now["a"] = prev[t]
    /\ now' = [now EXCEPT !["a"] = next[t]]
    /\ pc' = [pc EXCEPT ![t] = "check"]
    /\ completed' = completed + 1
    /\ prev' = [prev EXCEPT ![t] = 0]
    /\ next' = [next EXCEPT ![t] = 0]
    /\ race' = [u \in Threads |->
                   IF u # t /\ pc[u] = "cas" THEN "overtaken" ELSE race[u]]
    /\ UNCHANGED <<overflow_checks, op, ret, panicked, limiterVars, calc,
                   amount, round, before, after, spurious>>

\* compare_exchange_weak finds another value e: prev = e; next = prev + by
CasMismatch(t) ==
    /\ pc[t] = "cas"
    /\ now["a"] # prev[t]
    /\ prev' = [prev EXCEPT ![t] = now["a"]]
    /\ next' = [next EXCEPT ![t] = WrappingAdd(now["a"], amount)]
    /\ pc' = [pc EXCEPT ![t] = AfterAdd(now["a"])]
    /\ race' = [race EXCEPT ![t] = "retried"]
    /\ UNCHANGED <<overflow_checks, now, op, ret, panicked, limiterVars, calc,
                   amount, round, before, after, spurious, completed>>

\* mutant: the weak compare-exchange may fail spuriously without end
CasSpurious_Forever(t) ==
    /\ pc[t] = "cas"
    /\ now["a"] = prev[t]
    /\ pc' = [pc EXCEPT ![t] = AfterAdd(now["a"])]
    /\ race' = [race EXCEPT ![t] = IF race[t] = "overtaken" THEN "none" ELSE race[t]]
    /\ spurious' = (spurious + 1) % (MaxSpurious + 1)
    /\ UNCHANGED <<overflow_checks, now, op, ret, panicked, limiterVars, calc,
                   amount, round, before, after, prev, next, completed>>

\* compare_exchange_weak fails although the value is prev (a weak
\* compare-exchange may): prev = e, the same value, and the loop goes round
CasSpurious(t) ==
    /\ pc[t] = "cas"
    /\ now["a"] = prev[t]
    /\ spurious < MaxSpurious
    /\ spurious' = spurious + 1
    /\ prev' = [prev EXCEPT ![t] = now["a"]]
    /\ next' = [next EXCEPT ![t] = WrappingAdd(now["a"], amount)]
    /\ pc' = [pc EXCEPT ![t] = AfterAdd(now["a"])]
    /\ race' = [race EXCEPT ![t] = IF race[t] = "overtaken" THEN "none" ELSE race[t]]
    /\ UNCHANGED <<overflow_checks, now, op, ret, panicked, limiterVars, calc,
                   amount, round, before, after, completed>>

\* assert!(clock.now() > now); and the loop's next iteration
ReadAfter(t) ==
    /\ pc[t] = "check"
    /\ IF ClockNow("a") > before[t]
       THEN /\ round' = [round EXCEPT ![t] = round[t] + 1]
            /\ pc' = [pc EXCEPT ![t] = IF round[t] + 1 < Rounds THEN "now" ELSE "done"]
            /\ before' = [before EXCEPT ![t] = 0]
            /\ after' = [after EXCEPT ![t] = 0]
       ELSE /\ pc' = [pc EXCEPT ![t] = "assert_failed"]
            /\ after' = [after EXCEPT ![t] = ClockNow("a")]
            /\ UNCHANGED <<round, before>>
    /\ race' = [race EXCEPT ![t] = "none"]
    /\ UNCHANGED <<overflow_checks, now, op, ret, panicked, limiterVars, calc,
                   amount, prev, next, spurious, completed>>

NextClock ==
    \E t \in Threads :
        \/ ReadBefore(t)
        \/ AdvanceLoad(t)
        \/ CasSuccess(t)
        \/ CasMismatch(t)
        \/ CasSpurious(t)
        \/ ReadAfter(t)

SpecClock == InitClock /\ [][NextClock]_vars

\* one step of thread t
ThreadStep(t) ==
    \/ ReadBefore(t)
    \/ AdvanceLoad(t)
    \/ CasSuccess(t)
    \/ CasMismatch(t)
    \/ CasSpurious(t)
    \/ ReadAfter(t)

\* the threads under a fair scheduler: a thread that can take a step is not
\* held back for ever
SpecClockFair ==
    InitClock /\ [][NextClock]_vars /\ \A t \in Threads : WF_vars(ThreadStep(t))

\* ----- nanos.rs, clock.rs: the pure operations on durations and instants ----
\* std::time::Instant, counted in nanoseconds from the platform's earliest
\* representable instant
Instants == U64

\* <Instant as Reference>::saturating_sub:
\* self.checked_sub(duration.into()).unwrap_or(*self)
InstantSaturatingSub(self, duration) ==
    IF duration <= self THEN self - duration ELSE self

\* <Nanos as Reference>::saturating_sub
NanosRefSaturatingSub(self, duration) == NanosSaturatingSub(self, duration)

\* <Nanos as Add<Nanos>>::add: Self(self.0 + rhs.0); the overflowing sum is a
\* panic where the build checks overflow and wraps where it does not
NanosAdd(self, rhs) ==
    IF AddOverflows(self, rhs) /\ overflow_checks
    THEN [panic |-> TRUE, out |-> 0]
    ELSE [panic |-> FALSE, out |-> WrappingAdd(self, rhs)]

InitPure ==
    /\ overflow_checks \in BOOLEAN
    /\ \E a \in U64, b \in U64 :
          calc = [fn |-> "none", a |-> a, b |-> b, out |-> 0, panic |-> FALSE]
    /\ now = [c \in Arcs |-> 0]
    /\ state = StateNew(0, 0, "a")
    /\ op = "new"
    /\ ret = FALSE
    /\ panicked = FALSE
    /\ calls = -1
    /\ fresh = FALSE
    /\ base_state = StateNew(0, 0, "a")
    /\ inner_state = << >>
    /\ inserted = {}
    /\ replaced = NoEntry
    /\ admits = NoAdmits
    /\ amount = 0
    /\ pc = [t \in Threads |-> "done"]
    /\ round = [t \in Threads |-> 0]
    /\ before = [t \in Threads |-> 0]
    /\ after = [t \in Threads |-> 0]
    /\ prev = [t \in Threads |-> 0]
    /\ next = [t \in Threads |-> 0]
    /\ spurious = 0
    /\ completed = 0
    /\ race = [t \in Threads |-> "none"]

restVars == <<overflow_checks, now, op, ret, panicked, limiterVars, threadVars>>

\* Nanos(a).saturating_sub(Nanos(b)) through the Reference trait
CallNanosSaturatingSub ==
    /\ calc' = [calc EXCEPT !.fn = "nanos_saturating_sub",
                            !.out = NanosRefSaturatingSub(calc.a, calc.b),
                            !.panic = FALSE]
    /\ UNCHANGED restVars

\* instant.saturating_sub(Nanos(b)) for the Instant a nanoseconds after the
\* earliest one
CallInstantSaturatingSub ==
    /\ calc' = [calc EXCEPT !.fn = "instant_saturating_sub",
                            !.out = InstantSaturatingSub(calc.a, calc.b),
                            !.panic = FALSE]
    /\ UNCHANGED restVars

\* Nanos(a) + Nanos(b)
CallNanosAdd ==
    /\ calc' = [calc EXCEPT !.fn = "nanos_add",
                            !.out = NanosAdd(calc.a, calc.b).out,
                            !.panic = NanosAdd(calc.a, calc.b).panic]
    /\ UNCHANGED restVars

NextPure ==
    \/ CallNanosSaturatingSub
    \/ CallInstantSaturatingSub
    \/ CallNanosAdd

SpecPure == InitPure /\ [][NextPure]_vars

\* ----- what the claims speak of ------------------------------------------
\* the quota of the current window is used up
Exhausted(s) == s.acquired >= s.allowed

\* C1: after any completed acquire, consumed (acquired) is at most capacity
\* (allowed), whatever the capacity, the window length and the clock advances.
C1_ConsumedAtMostCapacity ==
    op = "acquire" => state.acquired <= state.allowed

\* a full window was consumed and one more acquire rejected, after time moved
C1_Witness ==
    /\ op = "acquire" /\ ~ret
    /\ state.allowed = MaxCap /\ state.acquired = state.allowed
    /\ now[state.clock] > 0

\* C2 as stated: from a fresh counter of capacity C >= 1 and any window length,
\* with no time advance, acquires 1..C return true and acquire C+1 returns false.
C2_FreshBurst_AnyWindow ==
    (fresh /\ op = "acquire" /\ state.allowed >= 1) =>
        /\ (calls \in 1 .. state.allowed) => ret
        /\ (calls = state.allowed + 1) => ~ret

\* C2 amended: the same for every window length W >= 1 (a window of length 0
\* is expired at every acquire, so no acquire is ever rejected when C >= 1).
C2_FreshBurst ==
    (fresh /\ op = "acquire" /\ state.allowed >= 1 /\ state.duration_nano >= 1) =>
        /\ (calls \in 1 .. state.allowed) => ret
        /\ (calls = state.allowed + 1) => ~ret

\* the (C+1)-th back-to-back acquire on a fresh counter of the largest capacity
C2_Witness ==
    /\ fresh /\ op = "acquire" /\ ~ret
    /\ state.duration_nano >= 1
    /\ state.allowed = MaxCap /\ calls = state.allowed + 1

\* an acquire made when time is W or more past window_start admits and opens
\* a window at the current time with one unit consumed (C >= 1)
ResetAdmits ==
    (Acquire /\ TimePast(state) /\ state.allowed >= 1) =>
        /\ ret'
        /\ state'.acquired = 1
        /\ state'.last_update = now[state.clock]

\* C3 as stated: for C >= 1 and any window length W, once time is at least W
\* past window_start the next acquire admits and restores the full capacity:
\* back to back, C acquires (that one included) return true and the next false.
C3_ResetRestores_AnyWindow ==
    /\ [][ResetAdmits]_vars
    /\ []((~fresh /\ op = "acquire" /\ state.allowed >= 1) =>
            /\ (calls \in 1 .. state.allowed) => ret
            /\ (calls = state.allowed + 1) => ~ret)

\* C3 amended: the admission holds for every W; the count of exactly C holds
\* for every window length W >= 1.
C3_ResetRestores ==
    /\ [][ResetAdmits]_vars
    /\ []((~fresh /\ op = "acquire" /\ state.allowed >= 1 /\ state.duration_nano >= 1) =>
            /\ (calls \in 1 .. state.allowed) => ret
            /\ (calls = state.allowed + 1) => ~ret)

\* after a reset at the boundary or later, the whole new window was consumed
\* back to back and the next acquire rejected
C3_Witness ==
    /\ ~fresh /\ op = "acquire" /\ ~ret
    /\ state.duration_nano >= 1
    /\ state.allowed = MaxCap /\ calls = state.allowed + 1
    /\ state.last_update = now[state.clock]

\* an acquire made now would be rejected
WouldReject == ~StateAcquire(state).ret

\* an acquire made while time is less than W past window_start keeps the
\* window: window_start stays, consumed is not zeroed, exhausted quota rejects
AcquireInsideWindow ==
    (Acquire /\ ~TimePast(state)) =>
        /\ state'.last_update = state.last_update
        /\ state'.acquired >= state.acquired
        /\ Exhausted(state) => ~ret'

\* C4 as stated: from every reachable state in which the window has not yet
\* expired, an advance by d < W leaves the window unexpired for the next
\* acquire, and an acquire that would be rejected before it is rejected after it.
C4_ShortAdvance_AnyState ==
    [][\A d \in Durations :
          (d < state.duration_nano /\ ~TimePast(state) /\ Advance(state.clock, d)) =>
              /\ (~TimePast(state))'
              /\ WouldReject => WouldReject']_vars

\* C4 amended: an advance by d that leaves simulated time less than W past
\* window_start (elapsed + d < W) does not make the next acquire reset the
\* window, and an acquire that would be rejected before it is rejected after it;
\* an acquire inside the window moves no window_start and zeroes no consumed.
C4_ShortAdvance ==
    [][/\ \A d \in Durations :
            (TimeSince(state) + d < state.duration_nano /\ Advance(state.clock, d)) =>
                /\ (~TimePast(state))'
                /\ WouldReject => WouldReject'
       /\ AcquireInsideWindow]_vars

\* time moved inside the window of an exhausted counter and the acquire that
\* followed was rejected without a reset
C4_Witness ==
    /\ op = "acquire" /\ ~ret
    /\ state.allowed >= 1 /\ state.acquired = state.allowed
    /\ now[state.clock] > state.last_update
    /\ now[state.clock] - state.last_update < state.duration_nano

\* C5: with capacity 0 every acquire returns false and consumed stays 0, while
\* the window still resets: window_start becomes the current time whenever the
\* acquire finds elapsed >= window length, and stays otherwise.
C5_ZeroCapacity ==
    [][(Acquire /\ state.allowed = 0) =>
          /\ ~ret'
          /\ state'.acquired = 0
          /\ state'.last_update =
                IF TimePast(state) THEN now[state.clock] ELSE state.last_update]_vars

\* a capacity-0 counter rejected an acquire that reset its window after an advance
C5_Witness ==
    /\ op = "acquire" /\ ~ret
    /\ state.allowed = 0 /\ state.acquired = 0
    /\ state.duration_nano >= 1
    /\ state.last_update = now[state.clock] /\ now[state.clock] > 0

\* an acquire made now on the counter s would be admitted
WouldAdmit(s) == StateAcquire(s).ret

\* C6: each registry call changes at most one counter: acquire() only the base
\* counter, acquire_by_key(K) only the counter registered for K; every other
\* key's counter (and the base, for keyed calls) keeps its consumed and
\* window_start, so its next admit/reject outcome is what it was.
C6_OneCounterPerCall ==
    [][/\ RegistryAcquire =>
            /\ inner_state' = inner_state
            /\ \A j \in DOMAIN inner_state :
                   WouldAdmit(inner_state[j])' = WouldAdmit(inner_state[j])
       /\ \A key \in Keys :
            RegistryAcquireByKey(key) =>
                /\ base_state' = base_state
                /\ WouldAdmit(base_state)' = WouldAdmit(base_state)
                /\ DOMAIN inner_state' = DOMAIN inner_state
                /\ \A j \in (DOMAIN inner_state) \ {key} :
                       /\ inner_state'[j] = inner_state[j]
                       /\ WouldAdmit(inner_state[j])' = WouldAdmit(inner_state[j])]_vars

\* user1's quota is exhausted while user2 consumed its own larger quota and the
\* base counter is untouched
C6_Witness ==
    /\ op = "acquire_by_key"
    /\ DOMAIN inner_state = InsertKeys
    /\ inner_state["user1"].allowed = 1 /\ inner_state["user1"].acquired = 1
    /\ inner_state["user2"].allowed = MaxCap /\ inner_state["user2"].acquired = MaxCap
    /\ base_state.acquired = 0

\* C7: acquire_by_key on a key never inserted returns false, panics not,
\* creates no entry, and leaves the base counter, every registered counter and
\* the clock unchanged.
C7_UnknownKeyRejected ==
    [][\A key \in Keys :
          (key \notin inserted /\ RegistryAcquireByKey(key)) =>
              /\ ~ret'
              /\ ~panicked'
              /\ inner_state' = inner_state
              /\ key \notin DOMAIN inner_state'
              /\ base_state' = base_state
              /\ now' = now]_vars

\* a keyed call was rejected although every registered counter and the base
\* counter still have quota: the call was for a key that was never inserted
C7_Witness ==
    /\ op = "acquire_by_key" /\ ~ret
    /\ inserted = InsertKeys
    /\ DOMAIN inner_state = InsertKeys
    /\ \A j \in DOMAIN inner_state : inner_state[j].acquired < inner_state[j].allowed
    /\ base_state.acquired < base_state.allowed

\* every thread made all its advance calls and each one returned
AllAdvancesCompleted == completed = NumThreads * Rounds

\* C8: concurrent advances are never lost: when NumThreads threads have each
\* completed Rounds calls of advance(amount) on the shared counter, the counter
\* equals its initial value (0) plus NumThreads * Rounds * amount, whatever the
\* interleaving of the loads and compare-exchanges.
C8_NoLostAdvance ==
    AllAdvancesCompleted => now["a"] = 0 + NumThreads * Rounds * amount

\* C9: a thread that reads now(), completes advance(amount) with amount > 0 and
\* reads now() again gets a strictly greater value (the test's assertion never
\* fails), and what now() returns in any state is at least the sum of the
\* advances completed so far.
C9_NowSeesCompletedAdvances ==
    /\ amount > 0 => \A t \in Threads : pc[t] # "assert_failed"
    /\ now["a"] >= completed * amount

\* C10: the simulated clock's counter never decreases, whatever representable
\* amounts are advanced, and it changes only through advance.
C10_CounterNeverDecreases ==
    [][/\ \A c \in Arcs : now'[c] >= now[c]
       /\ now' # now => op' = "advance"]_vars

\* C11: window_start (last_update) only moves forward or stays: after every
\* acquire it is greater than or equal to its value before.
C11_WindowStartMonotonic ==
    [][Acquire => state'.last_update >= state.last_update]_vars

\* C12: a clone is a handle on the same counter: now() through the caller's
\* handle, through another clone and through the clone inside the window
\* counter return the same value in every state; an advance through any handle
\* that changes what the caller's handle reads changes what the counter's
\* clock reads, and the elapsed time the counter's next acquire computes is
\* taken from the advanced value.
C12_ClonesShareCounter ==
    /\ [](/\ ClockNow(ClockClone(CallerClock)) = now[CallerClock]
          /\ ClockNow(state.clock) = now[CallerClock])
    /\ [][/\ now'[CallerClock] # now[CallerClock] =>
                ClockNow(state.clock)' # ClockNow(state.clock)
          /\ Elapsed(state)' =
                IF now'[CallerClock] >= state'.last_update
                THEN now'[CallerClock] - state'.last_update ELSE 0]_vars

\* the counter's window was reset by an acquire at a time reached only by
\* advancing the caller's handle, while the unrelated clock shows another time
C12_Witness ==
    /\ op = "acquire" /\ ret
    /\ state.duration_nano >= 1
    /\ state.last_update = now[CallerClock]
    /\ now[CallerClock] > 0
    /\ now[OtherClock] # now[CallerClock]

\* C13 as stated: an acquire that returns false leaves consumed and
\* window_start of the counter unchanged.
C13_RejectChangesNothing_AnyCapacity ==
    [][(Acquire /\ ~ret') =>
          /\ state'.acquired = state.acquired
          /\ state'.last_update = state.last_update]_vars

\* C13 amended: an acquire that returns false leaves consumed unchanged, and
\* leaves window_start unchanged unless the capacity is 0 and the window has
\* expired: then window_start becomes the current time.
C13_RejectChangesNothing ==
    [][(Acquire /\ ~ret') =>
          /\ state'.acquired = state.acquired
          /\ state'.last_update =
                IF state.allowed = 0 /\ TimePast(state)
                THEN now[state.clock] ELSE state.last_update]_vars

\* an acquire was rejected on a full window of the largest capacity that
\* began before the current time
C13_Witness ==
    /\ op = "acquire" /\ ~ret
    /\ state.allowed = MaxCap /\ state.acquired = MaxCap
    /\ state.last_update < now[state.clock]

\* C14: advance with a duration that does not fit the counter's 64 bits
\* panics and leaves the shared counter unchanged: nothing truncated or
\* clamped is added.
C14_UnrepresentableAdvancePanics ==
    [][\A by \in Durations :
          (by > U64Max /\ Advance(state.clock, by)) =>
              /\ panicked'
              /\ now' = now]_vars

\* an advance panicked in a build without overflow checks, where only the
\* conversion of the duration can panic, on a clock that had been advanced
C14_Witness ==
    /\ op = "advance" /\ panicked
    /\ ~overflow_checks
    /\ now[state.clock] > 0

\* C15: for both time references, saturating_sub(t, d) is the instant d
\* earlier than t when that is representable and the domain's minimum instant
\* (0) otherwise; it never underflows or wraps.
C15_SaturatingSubClamps ==
    calc.fn \in {"nanos_saturating_sub", "instant_saturating_sub"} =>
        /\ ~calc.panic
        /\ calc.out = IF calc.a >= calc.b THEN calc.a - calc.b ELSE 0

\* C16: Nanos addition never silently wraps: when the true sum exceeds the
\* largest u64, add saturates or fails explicitly and never yields the sum
\* modulo 2^64.
C16_AddNeverWraps ==
    (calc.fn = "nanos_add" /\ calc.a + calc.b > U64Max) =>
        \/ calc.panic
        \/ calc.out = U64Max

\* C17: acquire resets the window if and only if elapsed >= window length at
\* the call: then window_start becomes now and consumed is zeroed before the
\* admission test (so it ends at 1 if the capacity admits, else 0); when
\* elapsed < window length window_start is unchanged and consumed grows by one
\* exactly when the call admits, and never otherwise.
C17_ResetIffExpired ==
    [][Acquire =>
          IF TimePast(state)
          THEN /\ state'.last_update = now[state.clock]
               /\ ret' = (state.allowed > 0)
               /\ state'.acquired = IF state.allowed > 0 THEN 1 ELSE 0
          ELSE /\ state'.last_update = state.last_update
               /\ ret' = (state.acquired < state.allowed)
               /\ state'.acquired = IF ret' THEN state.acquired + 1
                                            ELSE state.acquired]_vars

\* an acquire reset a window after the clock moved and admitted the first
\* unit of a window that holds more than one
C17_Witness ==
    /\ op = "acquire" /\ ret
    /\ state.duration_nano >= 2 /\ state.allowed >= 2
    /\ state.acquired = 1
    /\ state.last_update = now[state.clock]
    /\ now[state.clock] >= state.duration_nano

\* C18: insert_key on a key already registered replaces its counter: the map
\* then holds exactly the inserted counter under that key (its capacity, a
\* consumed count of 0 and a window_start of the insertion time), the next
\* acquire_by_key for the key is decided by it alone (admitted iff its capacity
\* is positive, whatever the replaced counter had consumed), and the counters
\* of the other keys and the base counter are unchanged.
C18_InsertReplaces ==
    [][\A key \in InsertKeys, w \in RegWindows, c \in RegCaps :
          (key \in DOMAIN inner_state /\ InsertKey(key, w, c)) =>
              /\ DOMAIN inner_state' = DOMAIN inner_state
              /\ inner_state'[key].allowed = c
              /\ inner_state'[key].duration_nano = w
              /\ inner_state'[key].acquired = 0
              /\ inner_state'[key].last_update = now[base_state.clock]
              /\ LimiterAcquireByKey(base_state', inner_state', key).ret = (c > 0)
              /\ \A k \in DOMAIN inner_state \ {key} :
                    inner_state'[k] = inner_state[k]
              /\ base_state' = base_state]_vars

\* insert_key replaced a counter whose quota was used up, at a later time than
\* the replaced counter's window_start, while another key and the base counter
\* had consumed quota
C18_Witness ==
    /\ op = "insert_key"
    /\ replaced.some
    /\ replaced.value.acquired = replaced.value.allowed
    /\ replaced.value.last_update < now[base_state.clock]
    /\ inner_state[replaced.key].acquired = 0
    /\ \E k \in DOMAIN inner_state \ {replaced.key} : inner_state[k].acquired > 0
    /\ base_state.acquired > 0

\* C19 as stated: every advance call eventually returns (its thread reaches
\* the statement after the call).
C19_EveryAdvanceReturns ==
    \A t \in Threads : (pc[t] = "advance") ~> (pc[t] = "check")

\* C19: under fair scheduling, with boundedly many spurious failures, every
\* advance call eventually returns or panics, so its retry loop terminates;
\* it panics only for a duration that does not fit the counter or, where the
\* build checks overflow, a sum that does not fit; and a retry on a real
\* mismatch happens only after another thread's advance succeeded since this
\* call loaded the value it compared against.
C19_AdvanceTerminates ==
    /\ \A t \in Threads :
          (pc[t] \in {"advance", "cas"}) ~> (pc[t] \in {"check", "panicked"})
    /\ [](\A t \in Threads :
             pc[t] = "panicked" => (amount > U64Max \/ overflow_checks))
    /\ [][\A t \in Threads : CasMismatch(t) => race[t] = "overtaken"]_vars

\* an advance call returned after it went round the loop on a real mismatch,
\* another thread's advance having succeeded meanwhile
C19_Witness ==
    \E t \in Threads :
        /\ pc[t] = "check"
        /\ race[t] = "retried"
        /\ completed >= 2
        /\ amount >= 1

\* C20: for a window counter of capacity C and window length W, the acquires
\* that returned true at clock values inside any span shorter than W (the W
\* consecutive clock values v .. v + W - 1, for any v) number at most 2 * C.
C20_AtMostTwiceCapacity ==
    state.duration_nano >= 1 => admits.count <= 2 * state.allowed

====
